---- MODULE Spec2Model ----
(***************************************************************************)
(* Texas Critical Infrastructure POI Extractor                             *)
(* (src/project/data/raw/POI/extract_texas_infrastructure.py).             *)
(*                                                                         *)
(* Data representation.                                                    *)
(*  - A (Geo)DataFrame is a record [none, crs, index, cols, rows]: `none`  *)
(*    is TRUE for Python's None, `index` is the sequence of index level    *)
(*    names, `cols` the ordered column names, `rows` a sequence of         *)
(*    functions from the index and column names to values.                 *)
(*  - A geometry is [kind, den, pts]: pts are coordinate pairs <<x, y>>    *)
(*    (x = longitude, y = latitude) in units of 1/den degree.  No point is *)
(*    the empty geometry, one point a Point, two a LineString.             *)
(*  - The lat and lon columns hold numbers in units of 1/CoordDen degree,  *)
(*    so that the centroid of a two-point line is exact; the value v       *)
(*    stands for the double nearest to v/CoordDen, and the mean of a       *)
(*    column is computed on these doubles.                                 *)
(*  - NaN is the missing number, NA the missing attribute value.           *)
(***************************************************************************)
EXTENDS Integers, Sequences, FiniteSets, TLC

VARIABLES pc, idx, overpass_settings, use_historical, all_data,
          total_historical, final_df, success, report, file_saved,
          overall_success, main_result, exit_status, fetch_log, calls,
          csv_on_disk, geojson_failed, interrupted

vars == <<pc, idx, overpass_settings, use_historical, all_data,
          total_historical, final_df, success, report, file_saved,
          overall_success, main_result, exit_status, fetch_log, calls,
          csv_on_disk, geojson_failed, interrupted>>

(***************************************************************************)
(* Bounds of the model: the sizes of the regular responses of the query    *)
(* service, and the number of rows of the frames handed to the verifier    *)
(* on its own.                                                             *)
(***************************************************************************)
SmallBatch == 24

LargeBatch == 50

MaxVerifierRows == 2

(***************************************************************************)
(* Configuration (lines 27-62).                                            *)
(***************************************************************************)
HISTORICAL_DATE == "2022-06-01T00:00:00Z"

LOCATIONS == <<"Houston, Texas, USA", "Dallas, Texas, USA">>

CoordDen == 20

\* (29.0, 33.5) and (-97.5, -94.5) degrees, in units of 1/CoordDen degree.
HOUSTON_DALLAS_LAT_BOUNDS == <<580, 670>>

HOUSTON_DALLAS_LON_BOUNDS == <<-1950, -1890>>

KEEP_COLUMNS ==
    <<"name", "power", "amenity", "man_made", "telecom", "aeroway",
      "generator:source", "addr:full", "addr:street", "addr:city",
      "operator", "capacity", "voltage", "lat", "lon", "city_source">>

tag_columns == <<"power", "amenity", "man_made", "telecom", "aeroway">>

FallbackThreshold == 50

VolumeThreshold == 100

NaN == 999999

NA == "<NA>"

NumericColumns == {"lat", "lon", "osmid", "id"}

\* The missing value pandas fills a column with.
NullOf(col) == IF col \in NumericColumns THEN NaN ELSE NA

(***************************************************************************)
(* Sequence helpers.                                                       *)
(***************************************************************************)
Range(s) == {s[i] : i \in 1..Len(s)}

RECURSIVE SumSeq(_)
SumSeq(s) == IF s = <<>> THEN 0 ELSE Head(s) + SumSeq(Tail(s))

(***************************************************************************)
(* Frames.                                                                 *)
(***************************************************************************)
None == [none |-> TRUE, crs |-> "None", index |-> <<>>, cols |-> <<>>, rows |-> <<>>]

Frame(crs, index, cols, rows) ==
    [none |-> FALSE, crs |-> crs, index |-> index, cols |-> cols, rows |-> rows]

\* len(df)
FrameLen(df) == Len(df.rows)

\* `col in df.columns`
HasColumn(df, col) == col \in Range(df.cols)

\* df[col] = values (one per row): a new column is appended, an old one overwritten.
SetColumn(df, col, values) ==
    [df EXCEPT
       !.cols = IF HasColumn(df, col) THEN df.cols ELSE Append(df.cols, col),
       !.rows = [i \in 1..Len(df.rows) |->
                   [c \in (DOMAIN df.rows[i]) \cup {col} |->
                      IF c = col THEN values[i] ELSE df.rows[i][c]]]]

\* The elements of s at the positions of keep, from position i on, in order.
TakePositions(s, keep, i) ==
    LET taken == SelectSeq([k \in 1..Len(s) |-> <<k, s[k]>>],
                           LAMBDA p : p[1] >= i /\ p[1] \in keep)
    IN  [k \in 1..Len(taken) |-> taken[k][2]]

(***************************************************************************)
(* convert_to_centroids (lines 124-149).                                   *)
(***************************************************************************)
\* gdf.set_crs("EPSG:4326")
set_crs(gdf, crs) == [gdf EXCEPT !.crs = crs]

\* shapely's centroid: an empty geometry gives the empty point, a point
\* itself, a two-point line its midpoint (exact in units of 1/(2*den)).
centroid(geom) ==
    IF Len(geom.pts) = 0 THEN [kind |-> "Point", den |-> geom.den, pts |-> <<>>]
    ELSE IF Len(geom.pts) = 1 THEN [kind |-> "Point", den |-> geom.den, pts |-> geom.pts]
    ELSE [kind |-> "Point", den |-> 2 * geom.den,
          pts |-> << <<geom.pts[1][1] + geom.pts[2][1],
                       geom.pts[1][2] + geom.pts[2][2]>> >>]

\* GeoSeries.x / GeoSeries.y of a point: NaN for the empty point.
PointX(geom) ==
    IF Len(geom.pts) = 0 THEN NaN ELSE (geom.pts[1][1] * CoordDen) \div geom.den

PointY(geom) ==
    IF Len(geom.pts) = 0 THEN NaN ELSE (geom.pts[1][2] * CoordDen) \div geom.den

\* One value per row of gdf, taken from the row's geometry.
Centroids(gdf) == [i \in 1..FrameLen(gdf) |-> centroid(gdf.rows[i]["geometry"])]

Longitudes(gdf) == [i \in 1..FrameLen(gdf) |-> PointX(gdf.rows[i]["geometry"])]

Latitudes(gdf) == [i \in 1..FrameLen(gdf) |-> PointY(gdf.rows[i]["geometry"])]

convert_to_centroids(gdf) ==
    IF gdf.none \/ FrameLen(gdf) = 0 THEN None
    ELSE LET g1 == IF gdf.crs = "None" THEN set_crs(gdf, "EPSG:4326") ELSE gdf
             g2 == SetColumn(g1, "geometry", Centroids(g1))
             g3 == SetColumn(g2, "lon", Longitudes(g2))
         IN  SetColumn(g3, "lat", Latitudes(g3))

(***************************************************************************)
(* clean_and_filter (lines 152-197).                                       *)
(***************************************************************************)
\* gdf.reset_index(): the index levels become the first columns.
reset_index(gdf) == [gdf EXCEPT !.cols = gdf.index \o gdf.cols, !.index = <<>>]

\* [col for col in wanted if col in gdf.columns]
ColumnsPresent(wanted, gdf) == SelectSeq(wanted, LAMBDA c : HasColumn(gdf, c))

\* gdf[cols].notna().any(axis=1) for one row
AnyNotNa(row, cols) == \E i \in 1..Len(cols) : row[cols[i]] # NullOf(cols[i])

\* gdf[mask], mask one boolean per row
FilterRows(gdf, mask) ==
    [gdf EXCEPT !.rows = TakePositions(gdf.rows, {i \in 1..Len(gdf.rows) : mask[i]}, 1)]

\* gdf[available_cols]
SelectColumns(gdf, cols) ==
    [gdf EXCEPT
       !.cols = cols,
       !.rows = [i \in 1..Len(gdf.rows) |-> [c \in Range(cols) |-> gdf.rows[i][c]]]]

\* lines 177-183: the mask is applied only when a category column exists.
FilterByTags(gdf) ==
    LET existing_tag_cols == ColumnsPresent(tag_columns, gdf)
    IN  IF existing_tag_cols # <<>>
        THEN FilterRows(gdf, [i \in 1..FrameLen(gdf) |->
                                 AnyNotNa(gdf.rows[i], existing_tag_cols)])
        ELSE gdf

clean_and_filter(gdf, city_name) ==
    IF gdf.none \/ FrameLen(gdf) = 0 THEN None
    ELSE LET g1 == SetColumn(gdf, "city_source", [i \in 1..FrameLen(gdf) |-> city_name])
             g2 == reset_index(g1)
             g3 == FilterByTags(g2)
             kept == ColumnsPresent(KEEP_COLUMNS, g3)
             with_id == IF HasColumn(g3, "osmid") THEN <<"osmid">> \o kept ELSE kept
             available_cols == IF HasColumn(g3, "element_type")
                               THEN <<"element_type">> \o with_id ELSE with_id
         IN  SelectColumns(g3, available_cols)

(***************************************************************************)
(* Aggregation (lines 381-389).                                            *)
(***************************************************************************)
\* The columns of a, then those of b that a lacks, in order.
UnionColumns(a, b) == a \o SelectSeq(b, LAMBDA c : c \notin Range(a))

RECURSIVE AllColumns(_)
AllColumns(frames) ==
    IF frames = <<>> THEN <<>>
    ELSE UnionColumns(Head(frames).cols, AllColumns(Tail(frames)))

\* A row on the columns cols, the columns it lacks filled with the missing value.
AlignRow(row, cols) ==
    [c \in Range(cols) |-> IF c \in DOMAIN row THEN row[c] ELSE NullOf(c)]

RECURSIVE StackRows(_, _)
StackRows(frames, cols) ==
    IF frames = <<>> THEN <<>>
    ELSE [i \in 1..FrameLen(Head(frames)) |-> AlignRow(Head(frames).rows[i], cols)]
         \o StackRows(Tail(frames), cols)

\* pd.concat(frames, ignore_index=True), frames not empty
concat(frames) ==
    LET cols == AllColumns(frames)
    IN  Frame(Head(frames).crs, <<>>, cols, StackRows(frames, cols))

\* Two rows agree on every column of subset (pandas counts NaN equal to NaN here).
SameKey(r1, r2, subset) == \A i \in 1..Len(subset) : r1[subset[i]] = r2[subset[i]]

\* Fault variant of line 387: the positions keep='last' would keep.
KeepLastPositions(rows, subset) ==
    {i \in 1..Len(rows) : \A j \in (i + 1)..Len(rows) : ~SameKey(rows[j], rows[i], subset)}

\* The positions drop_duplicates(keep='first') keeps.
KeepFirstPositions(rows, subset) ==
    {i \in 1..Len(rows) : \A j \in 1..(i - 1) : ~SameKey(rows[j], rows[i], subset)}

\* df.drop_duplicates(subset=subset, keep='first')
drop_duplicates(df, subset) ==
    [df EXCEPT !.rows = TakePositions(df.rows, KeepFirstPositions(df.rows, subset), 1)]

\* lines 382 and 387
Aggregate(frames) == drop_duplicates(concat(frames), <<"lat", "lon">>)

(***************************************************************************)
(* The arithmetic of df[col].mean() (lines 250-251).  The lat and lon      *)
(* columns hold IEEE-754 doubles: the value v of the model stands for the  *)
(* double nearest to v/CoordDen.  pandas replaces the NaN of the column by *)
(* 0.0, sums the column with numpy's pairwise summation in double          *)
(* arithmetic and divides the sum by the number of values that are not     *)
(* NaN; every operation rounds to nearest, ties to even.                   *)
(*                                                                         *)
(* A natural number is a sequence of limbs, least significant first, with  *)
(* no leading zero limb.  A double is [neg, mant, exp], the number         *)
(* (-1)^neg * mant * 2^exp with mant of at most MantissaBits bits (or the  *)
(* power of two just above); the exponent range is not modelled, no        *)
(* coordinate being near its limits.                                       *)
(***************************************************************************)
LimbBits == 30

LimbBase == 1073741824

\* A limb is divided half by half.
HalfLimbBase == 32768

MantissaBits == 53

\* Bits kept below the quotient of a division before it is rounded.
GuardBits == 75

\* numpy's PW_BLOCKSIZE
PW_BLOCKSIZE == 128

Min(a, b) == IF a <= b THEN a ELSE b

Limb(a, i) == IF i >= 1 /\ i <= Len(a) THEN a[i] ELSE 0

RECURSIVE Trim(_)
Trim(a) == IF a = <<>> \/ a[Len(a)] # 0 THEN a ELSE Trim(SubSeq(a, 1, Len(a) - 1))

RECURSIVE BigOfNat(_)
BigOfNat(n) == IF n = 0 THEN <<>> ELSE <<n % LimbBase>> \o BigOfNat(n \div LimbBase)

\* a + b from limb i on, `carry` carried into limb i and `sum` the limbs below.
RECURSIVE AddLimbs(_, _, _, _, _)
AddLimbs(a, b, i, carry, sum) ==
    IF i > Len(a) /\ i > Len(b)
    THEN IF carry = 0 THEN sum ELSE Append(sum, carry)
    ELSE AddLimbs(a, b, i + 1,
                  (Limb(a, i) + Limb(b, i) + carry) \div LimbBase,
                  Append(sum, (Limb(a, i) + Limb(b, i) + carry) % LimbBase))

BigAdd(a, b) == AddLimbs(a, b, 1, 0, <<>>)

\* a - b from limb i on, for a >= b.
RECURSIVE SubLimbs(_, _, _, _, _)
SubLimbs(a, b, i, borrow, difference) ==
    IF i > Len(a) THEN difference
    ELSE SubLimbs(a, b, i + 1,
                  IF Limb(a, i) - Limb(b, i) - borrow < 0 THEN 1 ELSE 0,
                  Append(difference, (Limb(a, i) - Limb(b, i) - borrow + LimbBase) % LimbBase))

\* a - b for a >= b
BigSub(a, b) == Trim(SubLimbs(a, b, 1, 0, <<>>))

\* The limbs of a and b differ at position k and agree above it.
TopDifference(a, b, k) == a[k] # b[k] /\ \A j \in (k + 1)..Len(a) : a[j] = b[j]

\* -1, 0 or 1 as a is below, equal to or above b
BigCmp(a, b) ==
    IF Len(a) # Len(b) THEN (IF Len(a) < Len(b) THEN -1 ELSE 1)
    ELSE IF a = b THEN 0
    ELSE IF \E k \in 1..Len(a) : TopDifference(a, b, k) /\ a[k] < b[k] THEN -1
    ELSE 1

\* The number of bits of a limb.
RECURSIVE BitLength(_)
BitLength(n) ==
    IF n < 2 THEN n
    ELSE IF n >= 65536 THEN 16 + BitLength(n \div 65536)
    ELSE IF n >= 256 THEN 8 + BitLength(n \div 256)
    ELSE IF n >= 16 THEN 4 + BitLength(n \div 16)
    ELSE IF n >= 4 THEN 2 + BitLength(n \div 4)
    ELSE 1 + BitLength(n \div 2)

BigBitLen(a) ==
    IF a = <<>> THEN 0 ELSE LimbBits * (Len(a) - 1) + BitLength(a[Len(a)])

\* a * 2^k
ShiftLeft(a, k) ==
    IF k = 0 THEN a
    ELSE LET q == k \div LimbBits
             p == 2 ^ (k % LimbBits)
             cut == LimbBase \div p
         IN  Trim([i \in 1..(Len(a) + q + 1) |->
                     IF i <= q THEN 0
                     ELSE (Limb(a, i - q) % cut) * p + (Limb(a, i - q - 1) \div cut)])

\* a \div 2^k
ShiftRight(a, k) ==
    LET q == k \div LimbBits
        p == 2 ^ (k % LimbBits)
    IN  IF q >= Len(a) THEN <<>>
        ELSE Trim([i \in 1..(Len(a) - q) |->
                     (a[i + q] \div p) + (Limb(a, i + q + 1) % p) * (LimbBase \div p)])

\* bit k of a, bit 0 the least significant
BitSet(a, k) == (Limb(a, (k \div LimbBits) + 1) \div (2 ^ (k % LimbBits))) % 2 = 1

\* the k lowest bits of a are zero
LowBitsZero(a, k) ==
    /\ \A i \in 1..Len(a) : i <= k \div LimbBits => a[i] = 0
    /\ Limb(a, (k \div LimbBits) + 1) % (2 ^ (k % LimbBits)) = 0

\* Long division of the limbs i, i-1, .., 1 of a by n <= 2 * HalfLimbBase, each
\* limb taken as two halves: `rem` is the remainder and `quot` the quotient of
\* the limbs above i, `high` and `low` the two numbers divided at limb i.
RECURSIVE DivLimbs(_, _, _, _, _)
RECURSIVE DivHigh(_, _, _, _, _)
RECURSIVE DivLow(_, _, _, _, _, _)
DivLimbs(a, n, i, rem, quot) ==
    IF i = 0 THEN [quot |-> quot, rem |-> rem]
    ELSE DivHigh(a, n, i, rem * HalfLimbBase + (a[i] \div HalfLimbBase), quot)

DivHigh(a, n, i, high, quot) ==
    DivLow(a, n, i, high \div n, (high % n) * HalfLimbBase + (a[i] % HalfLimbBase), quot)

DivLow(a, n, i, q, low, quot) ==
    DivLimbs(a, n, i - 1, low % n, <<q * HalfLimbBase + (low \div n)>> \o quot)

FloatZero == [neg |-> FALSE, mant |-> <<>>, exp |-> 0]

\* mant * 2^exp with the `excess` lowest bits of mant rounded away, to nearest
\* and ties to even: `inexact` says that the exact value lies strictly above
\* mant * 2^exp (and below (mant + 1) * 2^exp).
RoundAway(neg, mant, exp, inexact, excess) ==
    IF excess <= 0 THEN [neg |-> neg, mant |-> mant, exp |-> exp]
    ELSE [neg |-> neg,
          mant |-> IF /\ BitSet(mant, excess - 1)
                      /\ \/ inexact
                         \/ ~LowBitsZero(mant, excess - 1)
                         \/ BitSet(mant, excess)
                   THEN BigAdd(ShiftRight(mant, excess), <<1>>)
                   ELSE ShiftRight(mant, excess),
          exp |-> exp + excess]

\* The double nearest to a number of any length.
RoundToDouble(neg, mant, exp, inexact) ==
    RoundAway(neg, mant, exp, inexact, BigBitLen(mant) - MantissaBits)

\* The sign and the magnitude of (-1)^xneg * a + (-1)^yneg * b.
SumSign(xneg, a, yneg, b) ==
    IF xneg = yneg \/ BigCmp(a, b) >= 0 THEN xneg ELSE yneg

SumMagnitude(xneg, a, yneg, b) ==
    IF xneg = yneg THEN BigAdd(a, b)
    ELSE IF BigCmp(a, b) >= 0 THEN BigSub(a, b)
    ELSE BigSub(b, a)

\* x + y, the mantissas a and b brought to the exponent e
AddAligned(xneg, a, yneg, b, e) ==
    RoundToDouble(SumSign(xneg, a, yneg, b), SumMagnitude(xneg, a, yneg, b), e, FALSE)

\* x + y
FloatAdd(x, y) ==
    IF x.mant = <<>> THEN y
    ELSE IF y.mant = <<>> THEN x
    ELSE AddAligned(x.neg, ShiftLeft(x.mant, x.exp - Min(x.exp, y.exp)),
                    y.neg, ShiftLeft(y.mant, y.exp - Min(x.exp, y.exp)),
                    Min(x.exp, y.exp))

\* d.quot * 2^exp, d.rem saying whether the division left a remainder
RoundQuotient(neg, d, exp) == RoundToDouble(neg, Trim(d.quot), exp, d.rem # 0)

\* num * 2^exp / n
DivideShifted(neg, num, n, exp) ==
    RoundQuotient(neg, DivLimbs(num, n, Len(num), 0, <<>>), exp)

\* x / n for an integer n in 1..(2 * HalfLimbBase)
FloatDiv(x, n) ==
    IF x.mant = <<>> THEN x
    ELSE DivideShifted(x.neg, ShiftLeft(x.mant, GuardBits), n, x.exp - GuardBits)

\* (-1)^neg * a <= (-1)^neg * b, c being BigCmp(a, b)
OrderedAs(neg, c) == IF neg THEN c >= 0 ELSE c <= 0

\* x <= y
FloatLeq(x, y) ==
    IF x.mant = <<>> THEN y.mant = <<>> \/ ~y.neg
    ELSE IF y.mant = <<>> THEN x.neg
    ELSE IF x.neg # y.neg THEN x.neg
    ELSE OrderedAs(x.neg, BigCmp(ShiftLeft(x.mant, x.exp - Min(x.exp, y.exp)),
                                 ShiftLeft(y.mant, y.exp - Min(x.exp, y.exp))))

\* The double nearest to v/CoordDen.
DoubleOf(v) ==
    FloatDiv([neg |-> v < 0, mant |-> BigOfNat(IF v < 0 THEN -v ELSE v), exp |-> 0],
             CoordDen)

\* res += a[i] for i = from, from + 1, .., Len(a)
RECURSIVE SumFrom(_, _, _)
SumFrom(res, a, from) ==
    IF from > Len(a) THEN res ELSE SumFrom(FloatAdd(res, a[from]), a, from + 1)

\* r[j] += a[i + j] for i = 8, 16, .. below `body`
RECURSIVE LaneSum(_, _, _, _, _)
LaneSum(r, a, j, i, body) ==
    IF i >= body THEN r ELSE LaneSum(FloatAdd(r, a[i + j]), a, j, i + 8, body)

\* The eight accumulators r[0..7] after the unrolled loop.
Lanes(a, body) == [j \in 1..8 |-> LaneSum(a[j], a, j, 8, body)]

\* ((r[0] + r[1]) + (r[2] + r[3])) + ((r[4] + r[5]) + (r[6] + r[7]))
ReduceLanes(r) ==
    FloatAdd(FloatAdd(FloatAdd(r[1], r[2]), FloatAdd(r[3], r[4])),
             FloatAdd(FloatAdd(r[5], r[6]), FloatAdd(r[7], r[8])))

\* n / 2 without the remainder of the unroll factor
HalfBlock(n) == (n \div 2) - ((n \div 2) % 8)

\* numpy's pairwise summation of a sequence of doubles (the inner loop of
\* ndarray.sum for a contiguous array of doubles).
RECURSIVE pairwise_sum(_)
pairwise_sum(a) ==
    IF Len(a) < 8 THEN SumFrom(FloatZero, a, 1)
    ELSE IF Len(a) <= PW_BLOCKSIZE
    THEN SumFrom(ReduceLanes(Lanes(a, Len(a) - (Len(a) % 8))), a,
                 Len(a) - (Len(a) % 8) + 1)
    ELSE FloatAdd(pairwise_sum(SubSeq(a, 1, HalfBlock(Len(a)))),
                  pairwise_sum(SubSeq(a, HalfBlock(Len(a)) + 1, Len(a))))

(***************************************************************************)
(* verify_data (lines 200-266).                                            *)
(***************************************************************************)
EmptyReport ==
    [check_volume |-> FALSE, check_coordinates |-> FALSE,
     check_location_sanity |-> FALSE, check_file |-> FALSE,
     total_records |-> 0, errors |-> <<>>]

\* The values of a numeric column that are not NaN.
ValidValues(df, col) ==
    SelectSeq([i \in 1..FrameLen(df) |-> df.rows[i][col]], LAMBDA v : v # NaN)

\* The column as pandas sums it: NaN counts as 0.0.
FilledColumn(df, col) ==
    [i \in 1..FrameLen(df) |->
       IF df.rows[i][col] = NaN THEN FloatZero ELSE DoubleOf(df.rows[i][col])]

\* df[col].mean() of a column with a value that is not NaN: the sum of the
\* column divided by the number of values that are not NaN.
mean(df, col) == FloatDiv(pairwise_sum(FilledColumn(df, col)), Len(ValidValues(df, col)))

\* lo <= x <= hi
Between(lo, x, hi) == FloatLeq(lo, x) /\ FloatLeq(x, hi)

\* lo <= df[col].mean() <= hi, compared as doubles; the mean of a column with
\* nothing but NaN is NaN, and a comparison with NaN is False.
MeanWithin(df, col, bounds) ==
    /\ Len(ValidValues(df, col)) > 0
    /\ Between(DoubleOf(bounds[1]), mean(df, col), DoubleOf(bounds[2]))

\* Check 1, lines 225-231
CheckVolume(df, rep) ==
    IF FrameLen(df) > VolumeThreshold
    THEN [rep EXCEPT !.check_volume = TRUE]
    ELSE [rep EXCEPT !.errors = Append(@, "Volume check failed")]

\* Check 2, lines 233-246
CheckCoordinates(df, rep) ==
    IF HasColumn(df, "lat") /\ HasColumn(df, "lon")
    THEN IF Len(ValidValues(df, "lat")) > 0 /\ Len(ValidValues(df, "lon")) > 0
         THEN [rep EXCEPT !.check_coordinates = TRUE]
         ELSE [rep EXCEPT !.errors = Append(@, "No valid coordinates found")]
    ELSE [rep EXCEPT !.errors = Append(@, "lat/lon columns missing")]

\* Check 3, lines 248-261
CheckLocationSanity(df, rep) ==
    IF HasColumn(df, "lat") /\ HasColumn(df, "lon")
    THEN IF MeanWithin(df, "lat", HOUSTON_DALLAS_LAT_BOUNDS)
            /\ MeanWithin(df, "lon", HOUSTON_DALLAS_LON_BOUNDS)
         THEN [rep EXCEPT !.check_location_sanity = TRUE]
         ELSE [rep EXCEPT !.errors = Append(@, "Mean coords outside expected bounds")]
    ELSE rep

\* line 264 and line 266
Verdict(rep) ==
    [success |-> rep.check_volume /\ rep.check_coordinates /\ rep.check_location_sanity,
     report |-> rep]

verify_data(df) ==
    IF df.none \/ FrameLen(df) = 0
    THEN [success |-> FALSE,
          report |-> [EmptyReport EXCEPT !.errors = <<"DataFrame is empty or None">>]]
    ELSE Verdict(CheckLocationSanity(df,
                   CheckCoordinates(df,
                     CheckVolume(df, [EmptyReport EXCEPT !.total_records = FrameLen(df)]))))

(***************************************************************************)
(* save_output (lines 269-303).  The file system and the two writers are   *)
(* the environment: to_csv raises or not, os.path.exists answers, to_file  *)
(* raises or not.                                                          *)
(***************************************************************************)
SaveEnvironments ==
    {[csv_raises |-> TRUE, exists |-> FALSE, geojson_raises |-> FALSE],
     [csv_raises |-> FALSE, exists |-> FALSE, geojson_raises |-> FALSE],
     [csv_raises |-> FALSE, exists |-> TRUE, geojson_raises |-> FALSE],
     [csv_raises |-> FALSE, exists |-> TRUE, geojson_raises |-> TRUE]}

\* line 287 (geojson_path is always given by main)
WritesGeoJSON(df) == HasColumn(df, "lat") /\ HasColumn(df, "lon")

\* The CSV was written and os.path.exists confirmed it (line 282).
CsvConfirmed(df, env) == ~df.none /\ ~env.csv_raises /\ env.exists

\* gdf.to_file raised (line 293)
GeoJSONRaised(df, env) == CsvConfirmed(df, env) /\ WritesGeoJSON(df) /\ env.geojson_raises

save_output(df, env) ==
    IF df.none \/ env.csv_raises THEN FALSE
    ELSE IF env.exists
         THEN IF WritesGeoJSON(df) /\ env.geojson_raises THEN FALSE ELSE TRUE
         ELSE FALSE

(***************************************************************************)
(* The query service (ox.features_from_place, line 110) is the             *)
(* environment.  A response is a descriptor [kind, n]; the frame it stands *)
(* for depends on the place asked for and on the global query settings:    *)
(* the historical snapshot and the current data hold different features.   *)
(***************************************************************************)
HistoricalSettings == "[out:json][timeout:180][date:\"2022-06-01T00:00:00Z\"]"

CurrentSettings == "[out:json][timeout:180]"

Unconfigured == "[out:json][timeout:180] (library default)"

\* location.split(",")[0]
CityName(location) ==
    CASE location = "Houston, Texas, USA" -> "Houston"
      [] location = "Dallas, Texas, USA" -> "Dallas"
      [] OTHER -> location

\* City centres <<lon, lat>> in tenths of a degree.
CityCentre(location) ==
    IF location = "Houston, Texas, USA" THEN <<-954, 298>> ELSE <<-968, 328>>

\* The feature identifiers of the two snapshots are disjoint.
SnapshotBase(settings) == IF settings = HistoricalSettings THEN 0 ELSE 5000

PlaceBase(location) == IF location = "Houston, Texas, USA" THEN 1000 ELSE 2000

Point(x, y) == [kind |-> "Point", den |-> 10, pts |-> << <<x, y>> >>]

LineString(x1, y1, x2, y2) ==
    [kind |-> "LineString", den |-> 10, pts |-> << <<x1, y1>>, <<x2, y2>> >>]

EmptyGeometry == [kind |-> "GeometryCollection", den |-> 10, pts |-> <<>>]

OsmIndex == <<"element_type", "osmid">>

\* n well-formed features around the centre of the place, all at distinct points.
RegularFrame(location, settings, n) ==
    Frame("EPSG:4326", OsmIndex, <<"geometry", "name", "power", "amenity">>,
          [i \in 1..n |->
             [element_type |-> "node",
              osmid |-> SnapshotBase(settings) + PlaceBase(location) + i,
              geometry |-> Point(CityCentre(location)[1] + (i % 8),
                                 CityCentre(location)[2] + (i \div 8)),
              name |-> NA,
              power |-> IF i % 2 = 0 THEN "substation" ELSE NA,
              amenity |-> IF i % 2 = 1 THEN "hospital" ELSE NA]])

\* Features on the border of the two places, returned for either: a point, a
\* line whose midpoint is that point, and another point.
SharedFrame(location, settings) ==
    Frame("EPSG:4326", OsmIndex, <<"geometry", "man_made", "aeroway", "operator">>,
          << [element_type |-> "node", osmid |-> SnapshotBase(settings) + 1,
              geometry |-> Point(-960, 310), man_made |-> "water_works",
              aeroway |-> NA, operator |-> CityName(location)],
             [element_type |-> "way", osmid |-> SnapshotBase(settings) + 2,
              geometry |-> LineString(-961, 309, -959, 311), man_made |-> NA,
              aeroway |-> "aerodrome", operator |-> CityName(location)],
             [element_type |-> "node", osmid |-> SnapshotBase(settings) + 3,
              geometry |-> Point(-958, 312), man_made |-> NA,
              aeroway |-> "aerodrome", operator |-> NA] >>)

\* A frame without a coordinate reference system, indexed as OSMnx 2 does, with
\* two empty geometries and one feature whose category fields are all null.
DegenerateFrame(location, settings) ==
    Frame("None", <<"element", "id">>, <<"geometry", "power", "telecom">>,
          << [element |-> "relation", id |-> SnapshotBase(settings) + 11,
              geometry |-> EmptyGeometry, power |-> "plant", telecom |-> NA],
             [element |-> "node", id |-> SnapshotBase(settings) + 12,
              geometry |-> Point(CityCentre(location)[1], CityCentre(location)[2]),
              power |-> NA, telecom |-> NA],
             [element |-> "relation", id |-> SnapshotBase(settings) + 13,
              geometry |-> EmptyGeometry, power |-> NA, telecom |-> "data_center"],
             [element |-> "node", id |-> SnapshotBase(settings) + 14,
              geometry |-> Point(CityCentre(location)[1], CityCentre(location)[2]),
              power |-> "generator", telecom |-> NA] >>)

\* Features (in New York) that carry none of the five category columns.
UntaggedFrame(location, settings) ==
    Frame("EPSG:4326", OsmIndex, <<"geometry", "name">>,
          << [element_type |-> "node", osmid |-> SnapshotBase(settings) + 21,
              geometry |-> Point(-740, 407), name |-> "a"],
             [element_type |-> "node", osmid |-> SnapshotBase(settings) + 22,
              geometry |-> Point(-741, 407), name |-> NA] >>)

\* Features whose category fields are all null: none survives the cleaning.
UnmatchedFrame(location, settings) ==
    Frame("EPSG:4326", OsmIndex, <<"geometry", "name", "power">>,
          << [element_type |-> "node", osmid |-> SnapshotBase(settings) + 31,
              geometry |-> Point(CityCentre(location)[1], CityCentre(location)[2]),
              name |-> "b", power |-> NA],
             [element_type |-> "way", osmid |-> SnapshotBase(settings) + 32,
              geometry |-> LineString(-960, 300, -958, 302), name |-> NA,
              power |-> NA] >>)

EmptyFrame == Frame("EPSG:4326", OsmIndex, <<"geometry">>, <<>>)

BatchSizes == {SmallBatch, SmallBatch + 1, LargeBatch, LargeBatch + 1}

ClientResponses ==
    {[kind |-> k, n |-> 0] : k \in {"raise", "empty", "shared", "degenerate", "untagged", "unmatched"}}
    \cup {[kind |-> "regular", n |-> n] : n \in BatchSizes}

\* What ox.features_from_place returns when it does not raise.
features_from_place(location, settings, resp) ==
    CASE resp.kind = "regular" -> RegularFrame(location, settings, resp.n)
      [] resp.kind = "shared" -> SharedFrame(location, settings)
      [] resp.kind = "degenerate" -> DegenerateFrame(location, settings)
      [] resp.kind = "untagged" -> UntaggedFrame(location, settings)
      [] resp.kind = "unmatched" -> UnmatchedFrame(location, settings)
      [] OTHER -> EmptyFrame

(***************************************************************************)
(* fetch_infrastructure_data (lines 96-121).  The result is [raised, gdf]: *)
(* `raised` says that an exception left the function.                      *)
(***************************************************************************)
\* Fault variant of lines 108-121: the client's exception is not caught.
fetch_unguarded(location, settings, resp) ==
    IF resp.kind = "raise" THEN [raised |-> TRUE, gdf |-> None]
    ELSE LET gdf == features_from_place(location, settings, resp)
         IN  [raised |-> FALSE, gdf |-> IF gdf.none \/ FrameLen(gdf) = 0 THEN None ELSE gdf]

fetch_infrastructure_data(location, settings, resp) ==
    IF resp.kind = "raise" THEN [raised |-> FALSE, gdf |-> None]
    ELSE LET gdf == features_from_place(location, settings, resp)
         IN  [raised |-> FALSE, gdf |-> IF gdf.none \/ FrameLen(gdf) = 0 THEN None ELSE gdf]

\* lines 336-340: the cleaned frame of one region's fetched frame.
CleanRegion(gdf, location) ==
    clean_and_filter(convert_to_centroids(gdf), CityName(location))

\* Fault variant of line 342: a cleaned frame is appended even when it is empty.
CollectRegion_keeps_empty(data, gdf, location) ==
    IF ~gdf.none
    THEN LET cleaned == clean_and_filter(convert_to_centroids(gdf), CityName(location))
         IN  IF ~cleaned.none THEN Append(data, cleaned) ELSE data
    ELSE data

\* lines 334-343: all_data after one region.
CollectRegion(data, gdf, location) ==
    IF ~gdf.none
    THEN LET cleaned == CleanRegion(gdf, location)
         IN  IF ~cleaned.none /\ FrameLen(cleaned) > 0 THEN Append(data, cleaned) ELSE data
    ELSE data

\* sum(len(d) for d in all_data) if all_data else 0  (line 346)
TotalYield(data) == SumSeq([i \in 1..Len(data) |-> FrameLen(data[i])])

\* Fault variant of line 348: the threshold itself triggers the fallback.
FallbackNeeded_inclusive(total) == total <= FallbackThreshold

\* line 348
FallbackNeeded(total) == total < FallbackThreshold

(***************************************************************************)
(* configure_osmnx_historical / configure_osmnx_current (lines 69-82):     *)
(* the value given to the global ox.settings.overpass_settings.            *)
(***************************************************************************)
configure_osmnx_historical == HistoricalSettings

\* Fault variant of line 79: the date filter is left in the settings.
configure_osmnx_current_dated == HistoricalSettings

configure_osmnx_current == CurrentSettings

(***************************************************************************)
(* main (lines 310-445) and the entry point (lines 448-459).               *)
(* pc is the position in main; exit_status is -1 while the process runs.   *)
(***************************************************************************)
Running == -1

Init ==
    /\ pc = "start"
    /\ idx = 1
    /\ overpass_settings = Unconfigured
    /\ use_historical = TRUE
    /\ all_data = <<>>
    /\ total_historical = 0
    /\ final_df = None
    /\ success = FALSE
    /\ report = EmptyReport
    /\ file_saved = FALSE
    /\ overall_success = FALSE
    /\ main_result = "running"
    /\ exit_status = Running
    /\ fetch_log = <<>>
    /\ calls = <<>>
    /\ csv_on_disk = FALSE
    /\ geojson_failed = FALSE
    /\ interrupted = FALSE

\* The record of one region's turn: the call of ox.features_from_place (place,
\* global settings at the call, use_historical argument, what the client did)
\* and what clean_and_filter returned for it (None when it was not called).
FetchEvent(location, historical, resp, cleaned) ==
    [location |-> location, settings |-> overpass_settings,
     use_historical |-> historical, response |-> resp, cleaned |-> cleaned]

\* The process ends with `status` in a handler of lines 452-459: main's frame
\* is unwound, so its locals are gone; the files it wrote stay.
AbnormalExit(status) ==
    /\ pc' = "exited"
    /\ exit_status' = status
    /\ idx' = 1
    /\ use_historical' = TRUE
    /\ all_data' = <<>>
    /\ total_historical' = 0
    /\ final_df' = None
    /\ success' = FALSE
    /\ report' = EmptyReport
    /\ file_saved' = FALSE
    /\ overall_success' = FALSE
    /\ UNCHANGED <<overpass_settings, main_result, csv_on_disk, geojson_failed>>

\* lines 318-329
Start ==
    /\ pc = "start"
    /\ use_historical' = TRUE
    /\ all_data' = <<>>
    /\ overpass_settings' = configure_osmnx_historical
    /\ calls' = Append(calls, "configure_osmnx_historical")
    /\ idx' = 1
    /\ pc' = "historical"
    /\ UNCHANGED <<total_historical, final_df, success, report, file_saved,
                   overall_success, main_result, exit_status, fetch_log,
                   csv_on_disk, geojson_failed, interrupted>>

\* One turn of a `for location in LOCATIONS` loop: the fetch, the conversion,
\* the cleaning and the append; `historical` is the use_historical argument of
\* the fetch and `after` the position that follows the loop.
\* An exception that leaves the fetch ends main in the handler of line 455.
Iteration(resp, historical, after) ==
    LET location == LOCATIONS[idx]
        fetched == fetch_infrastructure_data(location, overpass_settings, resp)
        cleaned == IF fetched.gdf.none THEN None ELSE CleanRegion(fetched.gdf, location)
    IN  /\ fetch_log' = Append(fetch_log, FetchEvent(location, historical, resp, cleaned))
        /\ calls' = Append(calls, "fetch_infrastructure_data")
        /\ IF fetched.raised
           THEN AbnormalExit(1) /\ UNCHANGED interrupted
           ELSE
             /\ all_data' = CollectRegion(all_data, fetched.gdf, location)
             /\ IF idx < Len(LOCATIONS)
                THEN idx' = idx + 1 /\ pc' = pc
                ELSE idx' = 1 /\ pc' = after
             /\ UNCHANGED <<overpass_settings, use_historical, total_historical,
                            final_df, success, report, file_saved, overall_success,
                            main_result, exit_status, csv_on_disk, geojson_failed, interrupted>>

\* lines 331-343
HistoricalIteration ==
    /\ pc = "historical"
    /\ \E resp \in ClientResponses : Iteration(resp, TRUE, "decide")

\* lines 345-355
Decide ==
    /\ pc = "decide"
    /\ total_historical' = TotalYield(all_data)
    /\ IF FallbackNeeded(TotalYield(all_data))
       THEN /\ overpass_settings' = configure_osmnx_current
            /\ calls' = Append(calls, "configure_osmnx_current")
            /\ all_data' = <<>>
            /\ use_historical' = FALSE
            /\ pc' = "current"
       ELSE /\ pc' = "consolidate"
            /\ UNCHANGED <<overpass_settings, calls, all_data, use_historical>>
    /\ UNCHANGED <<idx, final_df, success, report, file_saved, overall_success,
                   main_result, exit_status, fetch_log, csv_on_disk, geojson_failed, interrupted>>

\* lines 357-366
CurrentIteration ==
    /\ pc = "current"
    /\ \E resp \in ClientResponses : Iteration(resp, FALSE, "consolidate")

\* `not all_data` (line 372)
NoData(data) == data = <<>>

\* lines 368-389
Consolidate ==
    /\ pc = "consolidate"
    /\ IF NoData(all_data)
       THEN /\ main_result' = "False"
            /\ pc' = "returned"
            /\ UNCHANGED final_df
       ELSE /\ final_df' = Aggregate(all_data)
            /\ pc' = "verify"
            /\ UNCHANGED main_result
    /\ UNCHANGED <<idx, overpass_settings, use_historical, all_data,
                   total_historical, success, report, file_saved, overall_success,
                   exit_status, fetch_log, calls, csv_on_disk, geojson_failed, interrupted>>

\* line 397
VerifyData ==
    /\ pc = "verify"
    /\ \E result \in {verify_data(final_df)} :
          success' = result.success /\ report' = result.report
    /\ calls' = Append(calls, "verify_data")
    /\ pc' = "save"
    /\ UNCHANGED <<idx, overpass_settings, use_historical, all_data,
                   total_historical, final_df, file_saved, overall_success,
                   main_result, exit_status, fetch_log, csv_on_disk, geojson_failed, interrupted>>

\* lines 404-411: report["check_file"] and the error entry of a failed save.
RecordFileCheck(rep, saved) ==
    IF saved THEN [rep EXCEPT !.check_file = saved]
    ELSE [rep EXCEPT !.check_file = saved, !.errors = Append(@, "File creation failed")]

\* lines 399-411
SaveOutput ==
    /\ pc = "save"
    /\ \E env \in SaveEnvironments :
         /\ file_saved' = save_output(final_df, env)
         /\ report' = RecordFileCheck(report, save_output(final_df, env))
         /\ csv_on_disk' = CsvConfirmed(final_df, env)
         /\ geojson_failed' = GeoJSONRaised(final_df, env)
    /\ calls' = Append(calls, "save_output")
    /\ pc' = "final"
    /\ UNCHANGED <<idx, overpass_settings, use_historical, all_data,
                   total_historical, final_df, success, overall_success,
                   main_result, exit_status, fetch_log, interrupted>>

\* Fault variant of line 417: the result of the save is left out.
OverallSuccessOf_unsaved(verified, saved) == verified

\* line 417
OverallSuccessOf(verified, saved) == verified /\ saved

\* lines 413-445
Finish ==
    /\ pc = "final"
    /\ overall_success' = OverallSuccessOf(success, file_saved)
    /\ main_result' = IF OverallSuccessOf(success, file_saved) THEN "True" ELSE "False"
    /\ pc' = "returned"
    /\ UNCHANGED <<idx, overpass_settings, use_historical, all_data,
                   total_historical, final_df, success, report, file_saved,
                   exit_status, fetch_log, calls, csv_on_disk, geojson_failed, interrupted>>

\* line 451: sys.exit(0 if success else 1)
ExitCode(result) == IF result = "True" THEN 0 ELSE 1

\* lines 449-451
Exit ==
    /\ pc = "returned"
    /\ exit_status' = ExitCode(main_result)
    /\ pc' = "exited"
    /\ UNCHANGED <<idx, overpass_settings, use_historical, all_data,
                   total_historical, final_df, success, report, file_saved,
                   overall_success, main_result, fetch_log, calls, csv_on_disk,
                   geojson_failed, interrupted>>

\* The positions at which main is running.
InMain == pc \in {"start", "historical", "decide", "current", "consolidate",
                  "verify", "save", "final"}

\* lines 449-454: the user interrupts the try block, either while main runs
\* or, main having returned, while sys.exit of line 451 is being called.
KeyboardInterrupt ==
    \/ /\ InMain
       /\ AbnormalExit(130)
       /\ interrupted' = TRUE
       /\ UNCHANGED <<fetch_log, calls>>
    \/ /\ pc = "returned"
       /\ exit_status' = 130
       /\ pc' = "exited"
       /\ interrupted' = TRUE
       /\ UNCHANGED <<idx, overpass_settings, use_historical, all_data,
                      total_historical, final_df, success, report, file_saved,
                      overall_success, main_result, fetch_log, calls, csv_on_disk,
                      geojson_failed>>

\* lines 455-459: an exception no function of main catches; any statement of
\* main outside the fetch's try block can raise one (a print, os.getcwd, a
\* library call).
UnexpectedException ==
    /\ InMain
    /\ AbnormalExit(1)
    /\ UNCHANGED <<fetch_log, calls, interrupted>>

Next ==
    \/ Start
    \/ HistoricalIteration
    \/ Decide
    \/ CurrentIteration
    \/ Consolidate
    \/ VerifyData
    \/ SaveOutput
    \/ Finish
    \/ Exit
    \/ KeyboardInterrupt
    \/ UnexpectedException

Spec == Init /\ [][Next]_vars

(***************************************************************************)
(* The verifier on its own: verify_data and the lines of main that follow  *)
(* it (397-445), started on an arbitrary Dataset, among them the empty     *)
(* Dataset and Datasets without the lat and lon columns.                   *)
(***************************************************************************)
CoordinateRows ==
    {[name |-> NA, lat |-> lat, lon |-> lon] :
        lat \in {NaN, 600, 814}, lon \in {NaN, -1910, -1480}}

NameRows == {[name |-> n] : n \in {"a", NA}}

\* Latitude columns whose exact mean is the upper bound of the latitudes: the
\* mean of the doubles is the bound for the first and lies above it for the others.
BoundaryLatitudes == {<<660, 680>>, <<632, 689, 689>>, <<642, 684, 684>>}

SeqsUpTo(S, n) == UNION {[1..k -> S] : k \in 0..n}

VerifierFrames ==
    {Frame("EPSG:4326", <<>>, <<"name", "lat", "lon">>, rows) :
            rows \in SeqsUpTo(CoordinateRows, MaxVerifierRows)}
    \cup {Frame("EPSG:4326", <<>>, <<"name">>, rows) :
            rows \in SeqsUpTo(NameRows, MaxVerifierRows)}
    \cup {CleanRegion(RegularFrame(LOCATIONS[1], HistoricalSettings, n), LOCATIONS[1]) :
            n \in {VolumeThreshold, VolumeThreshold + 1}}
    \cup {Frame("EPSG:4326", <<>>, <<"name", "lat", "lon">>,
                [i \in 1..Len(lats) |-> [name |-> NA, lat |-> lats[i], lon |-> -1910]]) :
            lats \in BoundaryLatitudes}

InitVerifier ==
    /\ pc = "verify"
    /\ final_df \in VerifierFrames
    /\ idx = 1
    /\ overpass_settings = HistoricalSettings
    /\ use_historical = TRUE
    /\ all_data = <<>>
    /\ total_historical = 0
    /\ success = FALSE
    /\ report = EmptyReport
    /\ file_saved = FALSE
    /\ overall_success = FALSE
    /\ main_result = "running"
    /\ exit_status = Running
    /\ fetch_log = <<>>
    /\ calls = <<>>
    /\ csv_on_disk = FALSE
    /\ geojson_failed = FALSE
    /\ interrupted = FALSE

NextVerifier ==
    \/ VerifyData
    \/ SaveOutput
    \/ Finish

SpecVerifier == InitVerifier /\ [][NextVerifier]_vars

(***************************************************************************)
(* Observations shared by the properties below.                            *)
(***************************************************************************)
HistoricalEvents == SelectSeq(fetch_log, LAMBDA e : e.use_historical)

CurrentEvents == SelectSeq(fetch_log, LAMBDA e : ~e.use_historical)

\* The surviving cleaned records of a region's turn: a frame, or None when
\* the fetch gave nothing or nothing survived the cleaning.
Surviving(e) == IF e.cleaned.none \/ FrameLen(e.cleaned) = 0 THEN None ELSE e.cleaned

\* The non-empty record sets of a sequence of fetches, in order.
RECURSIVE SurvivingSets(_)
SurvivingSets(events) ==
    IF events = <<>> THEN <<>>
    ELSE (IF Surviving(Head(events)).none THEN <<>> ELSE <<Surviving(Head(events))>>)
         \o SurvivingSets(Tail(events))

RECURSIVE RecordCount(_)
RecordCount(frames) ==
    IF frames = <<>> THEN 0 ELSE Len(Head(frames).rows) + RecordCount(Tail(frames))

HistoricalYield == RecordCount(SurvivingSets(HistoricalEvents))

LocationsOf(events) == [i \in 1..Len(events) |-> events[i].location]

\* main has taken the decision of line 348.
Decided == pc \in {"current", "consolidate", "verify", "save", "final", "returned"}
           \/ main_result # "running"

\* main has merged the chosen pass (line 387 is behind it).
Merged == pc \in {"verify", "save", "final"}
          \/ (main_result # "running" /\ "verify_data" \in Range(calls))

CurrentPassRan == "configure_osmnx_current" \in Range(calls)

\* Every row of df that carries a feature identifier carries one of the snapshot.
FromSnapshot(df, settings) ==
    \A i \in 1..FrameLen(df) :
        ("osmid" \in DOMAIN df.rows[i] /\ df.rows[i]["osmid"] # NaN)
        => (df.rows[i]["osmid"] >= 5000 <=> settings = CurrentSettings)

(***************************************************************************)
(* C1.  The CURRENT pass runs if and only if the records collected in the  *)
(* HISTORICAL pass number fewer than 50.  When it runs, the merged Dataset *)
(* is made of the CURRENT pass's record sets alone and use_historical is   *)
(* FALSE; when it does not, the Dataset is made of the HISTORICAL pass's   *)
(* record sets alone and use_historical is TRUE.  The Dataset is compared  *)
(* with the merge of the chosen pass where main has just built it, and its *)
(* records' snapshot is checked from there to the end of the run.          *)
(***************************************************************************)
C1_FallbackIffLowYield ==
    LET yield == HistoricalYield
        chosen == SurvivingSets(IF use_historical THEN HistoricalEvents ELSE CurrentEvents)
    IN  /\ CurrentPassRan =>
              /\ Len(HistoricalEvents) = Len(LOCATIONS)
              /\ yield < 50
        /\ CurrentEvents # <<>> => CurrentPassRan
        /\ Decided =>
              /\ CurrentPassRan <=> yield < 50
              /\ use_historical <=> yield >= 50
              /\ total_historical = yield
        /\ (Decided /\ pc # "current") => all_data = chosen
        /\ pc = "verify" => final_df = Aggregate(chosen)
        /\ Merged =>
              /\ FrameLen(final_df) > 0
              /\ FrameLen(final_df) <= RecordCount(chosen)
              /\ FromSnapshot(final_df, IF use_historical THEN HistoricalSettings
                                        ELSE CurrentSettings)

\* The historical pass yielded 49 records, the fallback ran and its records were merged.
C1_Witness ==
    /\ pc = "verify"
    /\ ~use_historical
    /\ total_historical > 0
    /\ total_historical < 50
    /\ HistoricalEvents[1].response.kind = "regular"
    /\ FrameLen(final_df) > 0

\* The historical pass yielded 50 records or more and its records were merged.
C1_WitnessNoFallback ==
    /\ pc = "verify"
    /\ use_historical
    /\ total_historical >= 50
    /\ CurrentEvents = <<>>

(***************************************************************************)
(* C2.  A fetch on which the client raises does not end the run: the loop  *)
(* goes on to the next region (or to the end of the pass) with all_data    *)
(* untouched; and when a pass ends, every region has been fetched in it,   *)
(* in order, and all_data holds the surviving records of every region      *)
(* whose fetch gave any.                                                   *)
(***************************************************************************)
LastEvent(log) == log[Len(log)]

RaisingFetchStep ==
    /\ fetch_log' # fetch_log
    /\ LastEvent(fetch_log').response.kind = "raise"

\* C2, at the end of a pass: every region fetched, every surviving set collected.
C2_PassComplete ==
    /\ pc = "decide" =>
          /\ LocationsOf(HistoricalEvents) = LOCATIONS
          /\ all_data = SurvivingSets(HistoricalEvents)
    /\ (pc = "consolidate" /\ ~use_historical) =>
          /\ LocationsOf(CurrentEvents) = LOCATIONS
          /\ all_data = SurvivingSets(CurrentEvents)

\* C2: a raising fetch never ends the run, and every pass attempts every region.
C2_FetchFailureIsolated ==
    /\ [][RaisingFetchStep =>
            /\ exit_status' = Running
            /\ all_data' = all_data
            /\ IF idx < Len(LOCATIONS)
               THEN pc' = pc /\ idx' = idx + 1
               ELSE pc' \in {"decide", "consolidate"}]_vars
    /\ []C2_PassComplete

\* The client raised for Houston and Dallas's records are in the pass's results.
C2_Witness ==
    /\ pc = "decide"
    /\ HistoricalEvents[1].response.kind = "raise"
    /\ HistoricalEvents[2].response.kind = "regular"
    /\ Len(all_data) = 1
    /\ FrameLen(all_data[1]) = SmallBatch

(***************************************************************************)
(* C3.  The merged Dataset holds no two records with the same (lat, lon);  *)
(* it is the concatenation of the chosen pass's record sets, in region     *)
(* order, from which every record whose coordinates were seen earlier has  *)
(* been removed, the order of the others kept; and merging the record sets *)
(* taken twice gives the same Dataset.                                     *)
(***************************************************************************)
CoordinateOf(row) == <<row["lat"], row["lon"]>>

\* The rows lo..hi of `rows` whose coordinate is not that of an earlier row.
RECURSIVE FirstSeen(_, _, _)
FirstSeen(rows, lo, hi) ==
    IF lo > hi THEN <<>>
    ELSE IF lo = hi
    THEN IF \E j \in 1..(lo - 1) : CoordinateOf(rows[j]) = CoordinateOf(rows[lo])
         THEN <<>> ELSE <<rows[lo]>>
    ELSE FirstSeen(rows, lo, (lo + hi) \div 2) \o FirstSeen(rows, ((lo + hi) \div 2) + 1, hi)

NoDuplicateCoordinates(df) ==
    Cardinality({CoordinateOf(df.rows[i]) : i \in 1..FrameLen(df)}) = FrameLen(df)

\* C3: the merged Dataset is the first-occurrence deduplication by (lat, lon).
C3_DedupFirstOccurrence ==
    pc = "verify" =>
        /\ NoDuplicateCoordinates(final_df)
        /\ final_df.rows = FirstSeen(concat(all_data).rows, 1, RecordCount(all_data))
        /\ Aggregate(all_data \o all_data) = final_df

\* Both regions returned the border features: six records, four of them duplicates.
C3_Witness ==
    /\ pc = "verify"
    /\ Len(all_data) = 2
    /\ RecordCount(all_data) = 6
    /\ FrameLen(final_df) = 2
    /\ final_df.rows[1]["element_type"] = "node"
    /\ final_df.rows[1]["city_source"] = "Houston"

(***************************************************************************)
(* C4.  Every record clean_and_filter returns has a non-null value in at   *)
(* least one of power, amenity, man_made, telecom, aeroway, whatever the   *)
(* columns of its input (a column absent from the frame counts as null).   *)
(***************************************************************************)
HasCategory(row) ==
    \E i \in 1..Len(tag_columns) :
        tag_columns[i] \in DOMAIN row /\ row[tag_columns[i]] # NA

AllHaveCategory(df) == \A i \in 1..FrameLen(df) : HasCategory(df.rows[i])

\* C4: every cleaned record, and every record of the Dataset, has a category value.
C4_CleanedHaveCategory ==
    /\ \A i \in 1..Len(fetch_log) : AllHaveCategory(fetch_log[i].cleaned)
    /\ AllHaveCategory(final_df)

(***************************************************************************)
(* C5.  Once the four checks are recorded, the report lists as many errors *)
(* as there are checks that failed, for every Dataset given to the         *)
(* verifier, the empty one and those without lat/lon columns included.     *)
(***************************************************************************)
FailedChecks(rep) ==
    (IF rep.check_volume THEN 0 ELSE 1) + (IF rep.check_coordinates THEN 0 ELSE 1)
    + (IF rep.check_location_sanity THEN 0 ELSE 1) + (IF rep.check_file THEN 0 ELSE 1)

\* C5: the number of error entries equals the number of failed checks.
C5_OneErrorPerFailedCheck ==
    pc \in {"final", "returned"} /\ "save_output" \in Range(calls)
        => Len(report.errors) = FailedChecks(report)

(***************************************************************************)
(* C6.  save_output returns success if and only if the CSV file was        *)
(* written and found to exist; a failure of the GeoJSON write does not     *)
(* turn the success into a failure.                                        *)
(***************************************************************************)
C6_SuccessIffCsvExists ==
    pc = "final" => (file_saved <=> csv_on_disk)

(***************************************************************************)
(* C7.  When no region of the HISTORICAL pass and no region of the CURRENT *)
(* pass has surviving records, main returns False, the exit status is not  *)
(* zero, and verify_data and save_output are not called; and they are      *)
(* called only when the chosen pass collected a non-empty record set.      *)
(***************************************************************************)
NothingSurvived ==
    /\ Len(HistoricalEvents) = Len(LOCATIONS)
    /\ Len(CurrentEvents) = Len(LOCATIONS)
    /\ \A i \in 1..Len(fetch_log) : Surviving(fetch_log[i]).none

VerifierOrWriterCalled ==
    "verify_data" \in Range(calls) \/ "save_output" \in Range(calls)

\* C7: without surviving records main fails before the verifier and the writer.
C7_NoDataNoVerification ==
    /\ NothingSurvived =>
          /\ ~VerifierOrWriterCalled
          /\ pc \notin {"verify", "save", "final"}
          /\ pc = "returned" => main_result = "False"
          /\ pc = "exited" => exit_status # 0
    /\ VerifierOrWriterCalled =>
          \E i \in 1..Len(fetch_log) :
              /\ ~Surviving(fetch_log[i]).none
              /\ fetch_log[i].use_historical
                   = (\A j \in 1..Len(fetch_log) : fetch_log[j].use_historical)

\* Every fetch of both passes failed or gave nothing that survives, and main returned.
C7_Witness ==
    /\ NothingSurvived
    /\ pc = "exited"
    /\ main_result = "False"
    /\ exit_status = 1
    /\ \E i \in 1..Len(fetch_log) : fetch_log[i].response.kind = "unmatched"

(***************************************************************************)
(* C8.  Every record convert_to_centroids produces has a latitude and a    *)
(* longitude that are not null, so no record with a null coordinate        *)
(* reaches the cleaner's output or the merged Dataset.                     *)
(***************************************************************************)
AllHaveCoordinates(df) ==
    \A i \in 1..FrameLen(df) : df.rows[i]["lat"] # NaN /\ df.rows[i]["lon"] # NaN

\* C8: no cleaned record and no record of the Dataset has a null coordinate.
C8_NoNullCoordinates ==
    /\ \A i \in 1..Len(fetch_log) : AllHaveCoordinates(fetch_log[i].cleaned)
    /\ AllHaveCoordinates(final_df)

(***************************************************************************)
(* C9.  In a run that reaches verification and returns, the overall result *)
(* is success exactly when the four checks of the report are true, and it  *)
(* is computed after save_output has been called.  As stated, the process  *)
(* exits with 0 exactly when the overall result is success.  As amended:   *)
(* it exits with 130 exactly when the user interrupted it (main may by     *)
(* then have returned success), and otherwise with 0 when main returned    *)
(* success and with 1 when main returned failure or did not return.        *)
(***************************************************************************)
AllChecksTrue(rep) ==
    rep.check_volume /\ rep.check_coordinates /\ rep.check_location_sanity
    /\ rep.check_file

\* main returned from a run that reached verification.
ReturnedVerified == main_result # "running" /\ "verify_data" \in Range(calls)

\* C9 as stated: after verification the exit status is 0 exactly when the
\* overall result, the conjunction of the four checks, is success.
C9_ExitZeroIffSuccess ==
    (pc = "exited" /\ ReturnedVerified) =>
        /\ overall_success <=> AllChecksTrue(report)
        /\ exit_status = 0 <=> overall_success

\* C9 as amended: overall success is the conjunction of the four checks; the
\* exit status is 130 exactly on interruption and otherwise follows main's result.
C9_ExitReflectsChecks ==
    /\ ReturnedVerified =>
          /\ "save_output" \in Range(calls)
          /\ overall_success <=> AllChecksTrue(report)
          /\ main_result = "True" <=> overall_success
    /\ overall_success => "save_output" \in Range(calls)
    /\ pc = "exited" =>
          /\ exit_status \in {0, 1, 130}
          /\ exit_status = 130 <=> interrupted
          /\ ~interrupted => (exit_status = 0 <=> main_result = "True")
    /\ pc # "exited" => exit_status = Running /\ ~interrupted

\* A run whose four checks passed and that exited with status 0.
C9_Witness ==
    /\ pc = "exited"
    /\ exit_status = 0
    /\ ~interrupted
    /\ AllChecksTrue(report)
    /\ report.total_records > 100

(***************************************************************************)
(* C10.  Regions are fetched one at a time in the order of LOCATIONS, all  *)
(* of the HISTORICAL pass before any of the CURRENT pass, and at every     *)
(* fetch the global query settings are those of its pass: the dated ones   *)
(* in the HISTORICAL pass, the undated ones in the CURRENT pass.           *)
(***************************************************************************)
C10_SequentialConfiguredFetches ==
    /\ Len(fetch_log) <= 2 * Len(LOCATIONS)
    /\ \A i \in 1..Len(fetch_log) :
          /\ fetch_log[i].location = LOCATIONS[((i - 1) % Len(LOCATIONS)) + 1]
          /\ fetch_log[i].use_historical <=> i <= Len(LOCATIONS)
          /\ fetch_log[i].settings =
                IF fetch_log[i].use_historical THEN HistoricalSettings
                ELSE CurrentSettings
    /\ pc = "historical" => overpass_settings = HistoricalSettings /\ Len(fetch_log) = idx - 1
    /\ pc = "current" => overpass_settings = CurrentSettings
                         /\ Len(fetch_log) = Len(LOCATIONS) + idx - 1

\* Both passes ran to their end: four fetches, the last under the undated settings.
C10_Witness ==
    /\ Len(fetch_log) = 2 * Len(LOCATIONS)
    /\ fetch_log[1].settings = HistoricalSettings
    /\ fetch_log[2 * Len(LOCATIONS)].settings = CurrentSettings
    /\ fetch_log[2 * Len(LOCATIONS)].location = "Dallas, Texas, USA"

====
